---- MODULE Spec2Model ----
(***************************************************************************)
(* Model of DayOneJSONtoHTML.py: the list-boundary normalizer              *)
(* (normalize_list_boundaries) and the conversion run                      *)
(* (convert_dayone_json_to_single_html).                                   *)
(*                                                                         *)
(* A text is a sequence of one-character strings.  A list of lines is a    *)
(* sequence of texts.                                                      *)
(***************************************************************************)
EXTENDS Integers, Sequences, FiniteSets, TLC

VARIABLES
    md_text,     \* normalize_list_boundaries: the argument
    out,         \* normalize_list_boundaries: the local list `out` at return
    ret,         \* normalize_list_boundaries: the returned text
    ret2,        \* the returned text of a second call, made on `ret`
    npc,         \* "input" | "normalized" | "renormalized"
    fs,          \* the files that exist in the media directories
    json_file,   \* what the input path holds
    data,        \* convert: the loaded JSON document
    pc,          \* convert: "start" | "loop" | "done" | "failed"
    i,           \* convert: the loop index (1-based)
    toc_html,    \* convert: the TOC lines appended so far
    entries_html,\* convert: the entry fragments appended so far
    dates,       \* convert: the list `dates`
    probed,      \* the paths os.path.exists was asked about
    output_file  \* the documents written to the output path, in order

normvars == <<md_text, out, ret, ret2, npc>>
convvars == <<fs, json_file, data, pc, i, toc_html, entries_html, dates, probed, output_file>>
vars == <<md_text, out, ret, ret2, npc,
          fs, json_file, data, pc, i, toc_html, entries_html, dates, probed, output_file>>

-----------------------------------------------------------------------------
(* Bounds *)

\* Longest input text given to normalize_list_boundaries, in characters.
MaxLen == 5

\* Most entries in a journal document.
MaxEntries == 2

\* Most entries in a journal document when every state of the media
\* directories is explored.
MaxMediaEntries == 1

-----------------------------------------------------------------------------
(* Characters *)

LF == "\n"
CR == "\r"
SP == " "

\* The characters texts are drawn from: two line boundaries, a blank, a
\* bullet, a digit, an ordered-list delimiter and a letter.
Chars == {LF, CR, SP, "-", "1", ".", "a"}

\* str.splitlines breaks a text at these.
IsLineBoundary(c) == c \in {LF, CR}

\* What \s matches and what str.strip removes.
IsSpace(c) == c \in {SP, LF, CR}

IsBullet(c) == c \in {"-", "+", "*"}
IsDigit(c) == c \in {"0", "1", "2", "3", "4", "5", "6", "7", "8", "9"}
IsOrderedDelim(c) == c \in {".", ")"}

-----------------------------------------------------------------------------
(* normalize_list_boundaries *)

\* str.splitlines(): the pieces between line boundaries, "\r\n" counting as
\* one boundary; a boundary at the very end opens no further, empty line.
RECURSIVE SplitFrom(_, _, _, _)
SplitFrom(s, j, cur, acc) ==
    IF j > Len(s)
    THEN IF cur = <<>> THEN acc ELSE Append(acc, cur)
    ELSE IF IsLineBoundary(s[j])
         THEN IF s[j] = CR /\ j < Len(s) /\ s[j + 1] = LF
              THEN SplitFrom(s, j + 2, <<>>, Append(acc, cur))
              ELSE SplitFrom(s, j + 1, <<>>, Append(acc, cur))
         ELSE SplitFrom(s, j + 1, Append(cur, s[j]), acc)

splitlines(s) == SplitFrom(s, 1, <<>>, <<>>)

\* "\n".join(lines)
RECURSIVE join(_)
join(lines) ==
    IF lines = <<>> THEN <<>>
    ELSE IF Len(lines) = 1 THEN lines[1]
    ELSE lines[1] \o <<LF>> \o join(Tail(lines))

\* line.strip() == ""
IsBlankLine(line) == \A k \in 1..Len(line) : IsSpace(line[k])

\* The index of the first character of `line` at or after j that is not
\* whitespace (Len(line) + 1 when there is none): the greedy \s*.
RECURSIVE SkipSpace(_, _)
SkipSpace(line, j) ==
    IF j <= Len(line) /\ IsSpace(line[j]) THEN SkipSpace(line, j + 1) ELSE j

\* The greedy [0-9]*.
RECURSIVE SkipDigits(_, _)
SkipDigits(line, j) ==
    IF j <= Len(line) /\ IsDigit(line[j]) THEN SkipDigits(line, j + 1) ELSE j

\* list_start_re.match(line): ^\s*(?:[-+*]|[0-9]+[.)])\s+
list_start_re_match(line) ==
    LET m == SkipSpace(line, 1)
        d == SkipDigits(line, m)
    IN  \/ /\ m <= Len(line)
           /\ IsBullet(line[m])
           /\ m + 1 <= Len(line)
           /\ IsSpace(line[m + 1])
        \/ /\ d > m
           /\ d <= Len(line)
           /\ IsOrderedDelim(line[d])
           /\ d + 1 <= Len(line)
           /\ IsSpace(line[d + 1])

\* The test with the flag taken the wrong way round.
NeedsBlankAfterBlank(is_list_item, prev_blank) == is_list_item /\ prev_blank
\* The test `is_list_item and not prev_blank`.
NeedsBlank(is_list_item, prev_blank) == is_list_item /\ ~prev_blank

\* The for loop.  Each element of `out` is kept with the statement that
\* appended it: "sep" (out.append("") in the loop), "line" (out.append(line))
\* or "trail" (the append after the loop).
RECURSIVE Loop(_, _, _, _)
Loop(lines, j, o, prev_blank) ==
    IF j > Len(lines) THEN o
    ELSE LET line == lines[j]
             is_list_item == list_start_re_match(line)
             o1 == IF NeedsBlank(is_list_item, prev_blank)
                   THEN Append(o, [line |-> <<>>, by |-> "sep"])
                   ELSE o
             o2 == Append(o1, [line |-> line, by |-> "line"])
         IN  Loop(lines, j + 1, o2, IsBlankLine(line))

\* The list `out` when the function returns.
normalize_out(text) ==
    LET o == Loop(splitlines(text), 1, <<>>, TRUE)
    IN  IF o # <<>> /\ o[Len(o)].line # <<>>
        THEN Append(o, [line |-> <<>>, by |-> "trail"])
        ELSE o

LinesOf(o) == [k \in 1..Len(o) |-> o[k].line]

normalize_list_boundaries(text) == join(LinesOf(normalize_out(text)))

-----------------------------------------------------------------------------
(* Calls of normalize_list_boundaries on every text of up to MaxLen chars *)

\* The conversion's variables before a run.
NoData == [has_entries |-> FALSE, entries |-> <<>>]

ConvStart ==
    /\ data = NoData
    /\ pc = "start"
    /\ i = 1
    /\ toc_html = <<>>
    /\ entries_html = <<>>
    /\ dates = <<>>
    /\ probed = {}
    /\ output_file = <<>>

\* An input path that cannot be read.
Unreadable == [readable |-> FALSE, root |-> NoData]

ConvIdle == fs = {} /\ json_file = Unreadable /\ ConvStart

\* The texts of n characters.
TextsOfLen(n) == [1..n -> Chars]

InitNorm ==
    /\ \E n \in 0..MaxLen : md_text \in TextsOfLen(n)
    /\ out = <<>>
    /\ ret = <<>>
    /\ ret2 = <<>>
    /\ npc = "input"
    /\ ConvIdle

\* normalized = normalize_list_boundaries(md_text)
Normalize ==
    /\ npc = "input"
    /\ out' = normalize_out(md_text)
    /\ ret' = normalize_list_boundaries(md_text)
    /\ npc' = "normalized"
    /\ UNCHANGED <<md_text, ret2>>
    /\ UNCHANGED convvars

\* normalize_list_boundaries(normalized)
Renormalize ==
    /\ npc = "normalized"
    /\ ret2' = normalize_list_boundaries(ret)
    /\ npc' = "renormalized"
    /\ UNCHANGED <<md_text, out, ret>>
    /\ UNCHANGED convvars

NextNorm == Normalize \/ Renormalize

SpecNorm == InitNorm /\ [][NextNorm]_vars

-----------------------------------------------------------------------------
(* JSON members of an entry.  Every member is a record whose field t tells  *)
(* whether the key is absent, holds null, or holds a value of some type.    *)

TextAbsent == [t |-> "absent", v |-> <<>>]
TextNull == [t |-> "null", v |-> <<>>]
TextStr(s) == [t |-> "str", v |-> s]

StrAbsent == [t |-> "absent", v |-> ""]
StrOf(s) == [t |-> "str", v |-> s]

NumAbsent == [t |-> "absent", v |-> 0]
NumOf(n) == [t |-> "num", v |-> n]
NumAsStr(n) == [t |-> "str", v |-> n]

\* Python truthiness of a string member: None and "" are falsy.
Truthy(x) == x.t = "str" /\ x.v # ""

\* Python truthiness of a numeric member: None and 0 are falsy.
TruthyNum(x) == x.t = "num" /\ x.v # 0

-----------------------------------------------------------------------------
(* Timestamps.  A date string is a record: its shape, and the day of       *)
(* October 2023, hour and minute it spells.  Shape "isoZ" is               *)
(* 2023-10-ddTHH:MM:00Z; the display shapes are what strftime returns.     *)

DateString(shape, d, H, M, p) ==
    [shape |-> shape, d |-> d, H |-> H, M |-> M, p |-> p]

EmptyDateStr == DateString("empty", 0, 0, 0, "")
NotADate == DateString("not-a-date", 0, 0, 0, "")
IsoZ(d, H, M) == DateString("isoZ", d, H, M, "")

DateAbsent == [t |-> "absent", v |-> EmptyDateStr]
DateOf(ds) == [t |-> "str", v |-> ds]

\* datetime.strptime(date_str, "%Y-%m-%dT%H:%M:%SZ"): ok is FALSE where it
\* raises ValueError; t is the instant in minutes since 2023-10-01T00:00Z.
strptime(date_str) ==
    LET ok == /\ date_str.shape = "isoZ"
              /\ date_str.d \in 1..31
              /\ date_str.H \in 0..23
              /\ date_str.M \in 0..59
    IN  [ok |-> ok,
         t |-> IF ok
               THEN ((date_str.d - 1) * 24 + date_str.H) * 60 + date_str.M
               ELSE 0]

\* The zones pytz.timezone resolves; any other name raises
\* UnknownTimeZoneError.
KnownZones == {"UTC", "America/New_York", "Asia/Kolkata"}

\* The zone's offset from UTC in October 2023, in minutes.
utcoffset(zone) ==
    CASE zone = "UTC" -> 0
      [] zone = "America/New_York" -> 0 - 240
      [] zone = "Asia/Kolkata" -> 330

\* The wall-clock minute of a local date.
Wall(local_date) == local_date.t + local_date.off

\* local_date.strftime("%d %b %Y %I:%M %p")
strftime_full(local_date) ==
    LET w == Wall(local_date)
        H24 == (w % 1440) \div 60
    IN  DateString("%d %b %Y %I:%M %p",
                   (w \div 1440) + 1,
                   IF H24 % 12 = 0 THEN 12 ELSE H24 % 12,
                   w % 60,
                   IF H24 < 12 THEN "AM" ELSE "PM")

\* start_date.strftime('%d %b %Y')
strftime_day(local_date) ==
    DateString("%d %b %Y", (Wall(local_date) \div 1440) + 1, 0, 0, "")

\* entry.get("creationDate", "")
creationDate(entry) ==
    IF entry.creationDate.t = "absent" THEN EmptyDateStr
    ELSE entry.creationDate.v

\* An except branch that drops the raw string.
OnDateErrorEmpty(date_str) == EmptyDateStr
\* The except branch: the display value when the try block raised.
OnDateError(date_str) == date_str

\* The try/except that formats the date: the display value date_fmt and the
\* list `dates` after it.  pytz.timezone raises inside the try block on an
\* unknown zone name, so that entry too takes the except branch.
FormatDate(entry, ds) ==
    LET date_str == creationDate(entry)
        date == strptime(date_str)
        timeZone == entry.timeZone
        resolves == Truthy(timeZone) => timeZone.v \in KnownZones
    IN  IF date.ok /\ resolves
        THEN LET off == IF Truthy(timeZone) THEN utcoffset(timeZone.v) ELSE 0
                 local_date == [t |-> date.t, off |-> off]
             IN  [date_fmt |-> strftime_full(local_date),
                  dates |-> Append(ds, local_date)]
        ELSE [date_fmt |-> OnDateError(date_str), dates |-> ds]

\* min(dates) and max(dates): the first smallest, the first largest instant.
MinDate(ds) ==
    LET k == CHOOSE k \in 1..Len(ds) :
                 /\ \A m \in 1..Len(ds) : ds[k].t <= ds[m].t
                 /\ \A m \in 1..(k - 1) : ds[m].t # ds[k].t
    IN  ds[k]

MaxDate(ds) ==
    LET k == CHOOSE k \in 1..Len(ds) :
                 /\ \A m \in 1..Len(ds) : ds[k].t >= ds[m].t
                 /\ \A m \in 1..(k - 1) : ds[m].t # ds[k].t
    IN  ds[k]

\* date_range_str
date_range_str(ds) ==
    IF ds # <<>>
    THEN [text |-> "from {} to {}",
          from |-> strftime_day(MinDate(ds)),
          to |-> strftime_day(MaxDate(ds))]
    ELSE [text |-> "No date information",
          from |-> EmptyDateStr,
          to |-> EmptyDateStr]

-----------------------------------------------------------------------------
(* Text, preview, location, weather *)

\* The index of the last character of s at or before j that is not
\* whitespace (0 when there is none).
RECURSIVE LastNonSpace(_, _)
LastNonSpace(s, j) ==
    IF j >= 1 /\ IsSpace(s[j]) THEN LastNonSpace(s, j - 1) ELSE j

\* str.strip()
strip(s) ==
    LET a == SkipSpace(s, 1)
        b == LastNonSpace(s, Len(s))
    IN  IF a > b THEN <<>> ELSE SubSeq(s, a, b)

RECURSIVE SkipHashes(_, _)
SkipHashes(s, j) ==
    IF j <= Len(s) /\ s[j] = "#" THEN SkipHashes(s, j + 1) ELSE j

\* re.sub(r'^#+\s*', '', preview)
strip_heading(s) ==
    LET h == SkipHashes(s, 1)
    IN  IF h = 1 THEN s ELSE SubSeq(s, SkipSpace(s, h), Len(s))

\* preview: the first line of the text without heading markers, or
\* f"Entry {i}" (n is the number in the label, 0 when the text is used).
Preview(text, idx) ==
    IF text # <<>>
    THEN [n |-> 0, s |-> strip_heading(splitlines(text)[1])]
    ELSE [n |-> idx, s |-> <<"E", "n", "t", "r", "y", " ">>]

\* markdown.markdown(normalized, extensions=[...]): the external renderer,
\* kept as an uninterpreted wrapper of its argument.
markdown(normalized) == [markdown |-> normalized]

\* A TOC line numbered from 0, as enumerate without start=1 would.
TocLineZeroBased(idx, date_fmt, preview) ==
    [href |-> idx - 1, date_fmt |-> date_fmt, preview |-> preview]
\* toc_html += '<li ...><a href="#entry{i}">{date_fmt} - {preview}</a></li>'
TocLine(idx, date_fmt, preview) ==
    [href |-> idx, date_fmt |-> date_fmt, preview |-> preview]

LocAbsent ==
    [t |-> "absent", latitude |-> NumAbsent, longitude |-> NumAbsent,
     placeName |-> "", localityName |-> "", country |-> ""]
LocNull == [LocAbsent EXCEPT !.t = "null"]
LocOf(lat, lng, place, locality, country) ==
    [t |-> "obj", latitude |-> lat, longitude |-> lng,
     placeName |-> place, localityName |-> locality, country |-> country]

\* The non-empty strings of a sequence, in order.
NonEmpty(xs) == SelectSeq(xs, LAMBDA x : x # "")

\* location_html: the map link, built only `if lat and lng`.
location_html(loc) ==
    IF TruthyNum(loc.latitude) /\ TruthyNum(loc.longitude)
    THEN [link |-> TRUE,
          q |-> <<loc.latitude.v, loc.longitude.v>>,
          location_text |-> NonEmpty(<<loc.placeName, loc.localityName,
                                       loc.country>>)]
    ELSE [link |-> FALSE, q |-> <<>>, location_text |-> <<>>]

WxAbsent ==
    [t |-> "absent", temperatureCelsius |-> NumAbsent,
     conditionsDescription |-> ""]
WxNull == [WxAbsent EXCEPT !.t = "null"]
WxOf(temp, description) ==
    [t |-> "obj", temperatureCelsius |-> temp,
     conditionsDescription |-> description]

\* f"{wx_temp:.1f}": hundredths of a degree rounded to tenths.
OneDecimal(hundredths) == (hundredths + 5) \div 10

\* wx_line
wx_line(wx) ==
    LET has_temp == wx.temperatureCelsius.t # "absent"
        desc == wx.conditionsDescription
    IN  IF has_temp
        THEN [temp |-> TRUE,
              tenths |-> OneDecimal(wx.temperatureCelsius.v),
              desc |-> desc]
        ELSE [temp |-> FALSE, tenths |-> 0, desc |-> desc]

\* entry.get("text", "").strip() raises AttributeError on a null text.
TextRaises(entry) == entry.text.t = "null"

\* loc.get and weather_info.get raise AttributeError on null; the format
\* code .1f raises on a temperature that is a string.
MetaRaises(entry) ==
    \/ entry.location.t = "null"
    \/ entry.weather.t = "null"
    \/ entry.weather.temperatureCelsius.t = "str"

-----------------------------------------------------------------------------
(* Media *)

PhotoExts == <<".jpg", ".jpeg", ".png">>
VideoExts == <<".mp4", ".mov", ".webm">>
AudioExts == <<".m4a">>

ExtsOf(dir) ==
    CASE dir = "photos" -> PhotoExts
      [] dir = "videos" -> VideoExts
      [] dir = "audios" -> AudioExts

\* mime_map, and the fixed audio type; photos carry no type.
MimeOf(ext) ==
    CASE ext = ".mp4" -> "video/mp4"
      [] ext = ".mov" -> "video/mp4"
      [] ext = ".webm" -> "video/webm"
      [] ext = ".m4a" -> "audio/mp4"
      [] OTHER -> ""

\* os.path.join(dir, filename + ext)
Path(dir, filename, ext) == [dir |-> dir, stem |-> filename, ext |-> ext]

MediaRef(md5, identifier) == [md5 |-> md5, identifier |-> identifier]

\* The two operands of the `or` exchanged.
FilenameIdentifierFirst(ref) ==
    IF Truthy(ref.identifier) THEN ref.identifier ELSE ref.md5
\* photo.get("md5") or photo.get("identifier")
Filename(ref) == IF Truthy(ref.md5) THEN ref.md5 ELSE ref.identifier

\* The loop over the extensions, from the j-th on, with its break: the
\* descriptors appended (none or one) and the paths asked about.
RECURSIVE TryExts(_, _, _, _)
TryExts(dir, filename, j, asked) ==
    IF j > Len(ExtsOf(dir)) THEN [media |-> <<>>, probed |-> asked]
    ELSE LET ext == ExtsOf(dir)[j]
             path == Path(dir, filename, ext)
         IN  IF path \in fs
             THEN [media |-> <<[path |-> path, type |-> MimeOf(ext)]>>,
                   probed |-> asked \cup {path}]
             ELSE TryExts(dir, filename, j + 1, asked \cup {path})

\* One of the three loops over an entry's references, from the j-th on.
RECURSIVE ResolveRefs(_, _, _, _)
ResolveRefs(dir, refs, j, acc) ==
    IF j > Len(refs) THEN acc
    ELSE LET filename == Filename(refs[j])
             r == IF Truthy(filename)
                  THEN TryExts(dir, filename.v, 1, acc.probed)
                  ELSE [media |-> <<>>, probed |-> acc.probed]
         IN  ResolveRefs(dir, refs, j + 1,
                         [media |-> acc.media \o r.media, probed |-> r.probed])

\* media_html after the photos, videos and audio loops, and the paths
\* asked about on the way.
ResolveMedia(entry, asked) ==
    LET p == ResolveRefs("photos", entry.photos, 1,
                         [media |-> <<>>, probed |-> asked])
        v == ResolveRefs("videos", entry.videos, 1, p)
    IN  ResolveRefs("audios", entry.audios, 1, v)

\* media_block: the row wrapper exists only when media_html is not empty.
media_block(media_html) == [row |-> media_html # <<>>, items |-> media_html]

-----------------------------------------------------------------------------
(* The journal documents explored *)

NewEntry(text, date, tz, loc, wx, photos, videos, audios) ==
    [text |-> text, creationDate |-> date, timeZone |-> tz,
     location |-> loc, weather |-> wx,
     photos |-> photos, videos |-> videos, audios |-> audios]

BaseEntry ==
    NewEntry(TextStr(<<"a">>), DateOf(IsoZ(5, 14, 30)), StrAbsent,
             LocAbsent, WxAbsent, <<>>, <<>>, <<>>)

EntryTexts ==
    {TextAbsent, TextNull, TextStr(<<>>),
     TextStr(<<"#", " ", "a">>),
     TextStr(<<SP, "a", LF, "-", SP, "a", LF>>)}

EntryDates ==
    {DateAbsent, DateOf(NotADate), DateOf(IsoZ(5, 14, 30)),
     DateOf(IsoZ(6, 1, 5)), DateOf(IsoZ(5, 24, 0))}

EntryZones ==
    {StrAbsent, StrOf(""), StrOf("America/New_York"), StrOf("Asia/Kolkata"),
     StrOf("Mars/Phobos")}

EntryLocations ==
    {LocNull,
     LocOf(NumOf(51), NumOf(7), "Dom", "", "DE"),
     LocOf(NumOf(51), NumAbsent, "Dom", "Koeln", "DE")}

EntryWeathers ==
    {WxNull,
     WxOf(NumOf(2104), "Clear"),
     WxOf(NumOf(2100), ""),
     WxOf(NumAbsent, "Clear"),
     WxOf(NumAsStr(21), "Clear")}

\* The references a media list is built from.
Refs ==
    {MediaRef(m, d) : m \in {StrAbsent, StrOf(""), StrOf("m")},
                      d \in {StrAbsent, StrOf("i")}}

Dirs == {"photos", "videos", "audios"}

WithMedia(dir, refs) ==
    CASE dir = "photos" -> [BaseEntry EXCEPT !.photos = refs]
      [] dir = "videos" -> [BaseEntry EXCEPT !.videos = refs]
      [] dir = "audios" -> [BaseEntry EXCEPT !.audios = refs]

\* Entries that differ from BaseEntry in one group of fields.
Entries ==
    {[BaseEntry EXCEPT !.text = t] : t \in EntryTexts}
    \cup {[BaseEntry EXCEPT !.creationDate = d, !.timeZone = z] :
              d \in EntryDates, z \in EntryZones}
    \cup {[BaseEntry EXCEPT !.location = l] : l \in EntryLocations}
    \cup {[BaseEntry EXCEPT !.weather = w] : w \in EntryWeathers}
    \cup {[BaseEntry EXCEPT
              !.photos = <<MediaRef(StrOf("m"), StrOf("i"))>>,
              !.videos = <<MediaRef(StrAbsent, StrOf("i"))>>,
              !.audios = <<MediaRef(StrOf("m"), StrAbsent)>>]}

\* Entries that differ from BaseEntry in their media references.
MediaEntries ==
    {WithMedia(dir, <<r>>) : dir \in Dirs, r \in Refs}
    \cup {WithMedia(dir, <<MediaRef(StrOf("m"), StrOf("i")),
                          MediaRef(StrAbsent, StrOf("i"))>>) : dir \in Dirs}

\* A document with a list of entries.
Document(es) ==
    [readable |-> TRUE, root |-> [has_entries |-> TRUE, entries |-> es]]

\* The input path holds nothing readable, a document without the `entries`
\* key, or a document with a list of up to n entries drawn from S.
HoldsInput(file, S, n) ==
    \/ file = Unreadable
    \/ file = [readable |-> TRUE, root |-> NoData]
    \/ \E k \in 0..n : \E es \in [1..k -> S] : file = Document(es)

\* The files a media directory can hold: each stem with each extension of
\* the directory.
FilesIn(dir) ==
    {Path(dir, stem, ExtsOf(dir)[j]) :
         stem \in {"m", "i"}, j \in 1..Len(ExtsOf(dir))}

-----------------------------------------------------------------------------
(* convert_dayone_json_to_single_html *)

\* A loop that stops one entry early.
AllButLastProcessed(idx, es) == idx >= Len(es)
\* The for loop has consumed data["entries"].
AllEntriesProcessed(idx, es) == idx > Len(es)

\* with open(json_file) ...: json.load(f), then the first evaluation of
\* data["entries"].  An unreadable file raises in open/json.load, a
\* document without the key raises KeyError.
LoadJSON ==
    /\ pc = "start"
    /\ IF ~json_file.readable
       THEN /\ pc' = "failed"
            /\ UNCHANGED data
       ELSE /\ data' = json_file.root
            /\ pc' = IF json_file.root.has_entries THEN "loop" ELSE "failed"
    /\ UNCHANGED <<fs, json_file, i, toc_html, entries_html, dates, probed,
                   output_file>>
    /\ UNCHANGED normvars

\* The entry block appended to entries_html.
EntryBlock(idx, entry, date_fmt, media_html) ==
    [id |-> idx,
     date_fmt |-> date_fmt,
     location_html |-> location_html(entry.location),
     wx_line |-> wx_line(entry.weather),
     text_html |-> markdown(normalize_list_boundaries(strip(entry.text.v))),
     media_block |-> media_block(media_html)]

\* One iteration of the for loop.  An exception leaves the loop with what
\* the iteration had appended before it was raised.
ProcessEntry ==
    /\ pc = "loop"
    /\ ~AllEntriesProcessed(i, data.entries)
    /\ LET entry == data.entries[i]
           fd == FormatDate(entry, dates)
           text == strip(entry.text.v)
           preview == Preview(text, i)
           m == ResolveMedia(entry, probed)
       IN  IF TextRaises(entry)
           THEN /\ pc' = "failed"
                /\ UNCHANGED <<i, toc_html, entries_html, dates, probed>>
           ELSE IF MetaRaises(entry)
           THEN /\ pc' = "failed"
                /\ dates' = fd.dates
                /\ toc_html' = Append(toc_html, TocLine(i, fd.date_fmt, preview))
                /\ UNCHANGED <<i, entries_html, probed>>
           ELSE /\ dates' = fd.dates
                /\ toc_html' = Append(toc_html, TocLine(i, fd.date_fmt, preview))
                /\ probed' = m.probed
                /\ entries_html' =
                       Append(entries_html,
                              EntryBlock(i, entry, fd.date_fmt, m.media))
                /\ i' = i + 1
                /\ pc' = "loop"
    /\ UNCHANGED <<fs, json_file, data, output_file>>
    /\ UNCHANGED normvars

\* html_content
html_content ==
    [date_range_str |-> date_range_str(dates),
     toc_html |-> toc_html,
     entries_html |-> entries_html]

\* After the loop: the date range, the document, and the single
\* f_out.write(html_content); open(output_file, "w") raises on a path that
\* cannot be written.
WriteOutput ==
    /\ pc = "loop"
    /\ AllEntriesProcessed(i, data.entries)
    /\ \E writable \in BOOLEAN :
           IF writable
           THEN /\ output_file' = Append(output_file, html_content)
                /\ pc' = "done"
           ELSE /\ pc' = "failed"
                /\ UNCHANGED output_file
    /\ UNCHANGED <<fs, json_file, data, i, toc_html, entries_html, dates,
                   probed>>
    /\ UNCHANGED normvars

NormIdle ==
    /\ md_text = <<>>
    /\ out = <<>>
    /\ ret = <<>>
    /\ ret2 = <<>>
    /\ npc = "input"

\* Runs over documents that vary every field, with empty media directories
\* or with one file of each kind.
Init ==
    /\ NormIdle
    /\ ConvStart
    /\ fs \in {{}, {Path("photos", "m", ".png"), Path("videos", "i", ".mov"),
                    Path("audios", "m", ".m4a")}}
    /\ HoldsInput(json_file, Entries, MaxEntries)

Next == LoadJSON \/ ProcessEntry \/ WriteOutput

Spec == Init /\ [][Next]_vars

\* Runs over documents that vary the media references, with every state of
\* one media directory.
InitMedia ==
    /\ NormIdle
    /\ ConvStart
    /\ \E dir \in Dirs : fs \in SUBSET FilesIn(dir)
    /\ HoldsInput(json_file, MediaEntries, MaxMediaEntries)

SpecMedia == InitMedia /\ [][Next]_vars

-----------------------------------------------------------------------------
(* Properties of normalize_list_boundaries (under SpecNorm) *)

\* str.split("\n"): the inverse of "\n".join.
RECURSIVE SplitLFFrom(_, _, _, _)
SplitLFFrom(s, j, cur, acc) ==
    IF j > Len(s) THEN Append(acc, cur)
    ELSE IF s[j] = LF
         THEN SplitLFFrom(s, j + 1, <<>>, Append(acc, cur))
         ELSE SplitLFFrom(s, j + 1, Append(cur, s[j]), acc)

SplitLF(s) == SplitLFFrom(s, 1, <<>>, <<>>)

InputLines == splitlines(md_text)

\* The elements of `out` that are input lines.
KeptLines == SelectSeq(out, LAMBDA r : r.by = "line")

\* The position in `out` of the k-th input line.
PosOfLine(k) ==
    CHOOSE p \in 1..Len(out) :
        /\ out[p].by = "line"
        /\ Cardinality({q \in 1..p : out[q].by = "line"}) = k

\* Input line k is a list item right after a non-blank line that is not a
\* list item.
StartsList(lines, k) ==
    /\ k > 1
    /\ list_start_re_match(lines[k])
    /\ ~IsBlankLine(lines[k - 1])
    /\ ~list_start_re_match(lines[k - 1])

\* C1: normalizing the normalized text returns the same text.
C1_Idempotent == npc = "renormalized" => ret2 = ret

\* C2: every input line is in the output, in order and unchanged, and a
\* list item right after a non-blank non-list line has exactly one inserted
\* blank line before it.
C2_BlankBeforeList ==
    npc # "input" =>
        /\ LinesOf(KeptLines) = InputLines
        /\ out # <<>> => SplitLF(ret) = LinesOf(out)
        /\ \A k \in 1..Len(InputLines) :
               StartsList(InputLines, k) =>
                   LET p == PosOfLine(k)
                   IN  /\ p >= 3
                       /\ out[p - 1] = [line |-> <<>>, by |-> "sep"]
                       /\ out[p - 2].by = "line"
                       /\ PosOfLine(k - 1) = p - 2

C2_Witness ==
    /\ npc = "normalized"
    /\ \E k \in 1..Len(InputLines) : StartsList(InputLines, k)
    /\ \E p \in 1..Len(out) : out[p].by = "sep"

\* C3: the result ends with exactly one blank line: its last line is empty
\* and the line before it, if any, is not.
C3_SingleTrailingBlank ==
    npc # "input" =>
        LET L == SplitLF(ret)
        IN  /\ L[Len(L)] = <<>>
            /\ Len(L) >= 2 => L[Len(L) - 1] # <<>>

\* C10: a blank line is inserted only after a line that is non-blank and is
\* not a list item, so never between two adjacent list items.
C10_NoBlankInsideListBlock ==
    npc # "input" =>
        \A p \in 1..Len(out) :
            out[p].by = "sep" =>
                /\ p > 1
                /\ ~IsBlankLine(out[p - 1].line)
                /\ ~list_start_re_match(out[p - 1].line)

-----------------------------------------------------------------------------
(* Properties of convert_dayone_json_to_single_html (under Spec) *)

\* The entries whose TOC line has been appended.
Seen == 1..Len(toc_html)

\* Entry k's creationDate parses.
Parses(k) == strptime(creationDate(data.entries[k])).ok

\* Entry k's instant.
InstantOf(k) == strptime(creationDate(data.entries[k])).t

\* Nothing but the date of the entry can make its iteration fail.
OnlyDateAtFault(entry) == ~TextRaises(entry) /\ ~MetaRaises(entry)

\* C4: an entry whose creationDate does not parse shows the raw string in
\* its TOC line and in its fragment, adds nothing to `dates`, and does not
\* stop the run.
C4_UnparsedDateIsRaw ==
    /\ \A k \in Seen :
           ~Parses(k) =>
               /\ toc_html[k].date_fmt = creationDate(data.entries[k])
               /\ k <= Len(entries_html) =>
                      entries_html[k].date_fmt = creationDate(data.entries[k])
    /\ Len(dates) <= Cardinality({k \in Seen : Parses(k)})
    /\ \A n \in 1..Len(dates) : \E k \in Seen : Parses(k) /\ dates[n].t = InstantOf(k)
    /\ \A k \in 1..Len(data.entries) :
           (~Parses(k) /\ OnlyDateAtFault(data.entries[k]) /\ i = k) =>
               pc # "failed"

C4_Witness ==
    /\ pc = "done"
    /\ Len(data.entries) = 2
    /\ creationDate(data.entries[1]) = NotADate
    /\ Parses(2)
    /\ toc_html[1].date_fmt = NotADate
    /\ entries_html[1].date_fmt = NotADate
    /\ Len(dates) = 1

\* The offset the claim gives an entry: its zone's when the identifier is
\* present and resolvable, UTC's otherwise.
ClaimedOffset(entry) ==
    IF Truthy(entry.timeZone) /\ entry.timeZone.v \in KnownZones
    THEN utcoffset(entry.timeZone.v)
    ELSE 0

\* C5: an entry whose creationDate parses shows its instant in the fixed
\* display format, in its zone when that is present and resolvable and in
\* UTC otherwise.
C5_ParsedDateIsFormatted ==
    \A k \in Seen :
        Parses(k) =>
            toc_html[k].date_fmt =
                strftime_full([t |-> InstantOf(k),
                               off |-> ClaimedOffset(data.entries[k])])

\* C6: the heading is built from the least and the greatest instant over
\* exactly the entries whose creationDate parsed; it is "No date
\* information" when none parsed.
C6_DateRange ==
    pc = "done" =>
        LET parsed == {InstantOf(k) : k \in {n \in Seen : Parses(n)}}
            heading == output_file[1].date_range_str
        IN  /\ {dates[n].t : n \in 1..Len(dates)} = parsed
            /\ parsed = {} <=> heading.text = "No date information"
            /\ parsed # {} =>
                   /\ \A t \in parsed : MinDate(dates).t <= t
                   /\ \A t \in parsed : MaxDate(dates).t >= t
                   /\ heading.from = strftime_day(MinDate(dates))
                   /\ heading.to = strftime_day(MaxDate(dates))

\* C8: after k entries the output holds k TOC lines and k fragments in the
\* input order; the k-th links to and carries the anchor entry{k} and is
\* built from the k-th entry.
C8_OrderPreserved ==
    pc \in {"loop", "done"} =>
        /\ Len(toc_html) = i - 1
        /\ Len(entries_html) = i - 1
        /\ pc = "done" => i - 1 = Len(data.entries)
        /\ \A k \in 1..(i - 1) :
               LET entry == data.entries[k]
                   date_fmt == FormatDate(entry, <<>>).date_fmt
               IN  /\ toc_html[k].href = k
                   /\ toc_html[k].date_fmt = date_fmt
                   /\ toc_html[k].preview = Preview(strip(entry.text.v), k)
                   /\ entries_html[k] =
                          EntryBlock(k, entry, date_fmt,
                                     ResolveMedia(entry, {}).media)

C8_Witness ==
    /\ pc = "done"
    /\ Len(data.entries) >= 2
    /\ data.entries[1] # data.entries[2]
    /\ Len(toc_html) = Len(data.entries)
    /\ entries_html[2].id = 2

\* C9: the output is written at most once, only by a run that read the
\* input and processed every entry, and then it holds the whole document; a
\* failed run has written nothing.
C9_SingleWrite ==
    /\ Len(output_file) <= 1
    /\ pc = "failed" => output_file = <<>>
    /\ pc = "done" => Len(output_file) = 1
    /\ output_file # <<>> =>
           /\ pc = "done"
           /\ data.has_entries
           /\ Len(output_file[1].toc_html) = Len(data.entries)
           /\ Len(output_file[1].entries_html) = Len(data.entries)
           /\ output_file[1].toc_html = toc_html
           /\ output_file[1].entries_html = entries_html

C9_Witness ==
    /\ pc = "done"
    /\ Len(data.entries) >= 2
    /\ Len(output_file) = 1
    /\ Len(output_file[1].entries_html) = Len(data.entries)

-----------------------------------------------------------------------------
(* Properties of the media lookup (under SpecMedia) *)

\* The stem the claim gives a reference: the md5 when present, otherwise
\* the identifier; "" when it has neither.
Stem(ref) ==
    IF Truthy(ref.md5) THEN ref.md5.v
    ELSE IF Truthy(ref.identifier) THEN ref.identifier.v
    ELSE ""

\* The places in the directory's extension order where stem + extension
\* exists.
Existing(dir, stem) ==
    {j \in 1..Len(ExtsOf(dir)) : Path(dir, stem, ExtsOf(dir)[j]) \in fs}

\* The paths the claim gives a reference: none, or that of the first
\* existing extension.
ClaimedPaths(dir, ref) ==
    LET stem == Stem(ref)
        ex == Existing(dir, stem)
    IN  IF stem = "" \/ ex = {} THEN <<>>
        ELSE LET j == CHOOSE j \in ex : \A m \in ex : j <= m
             IN  <<Path(dir, stem, ExtsOf(dir)[j])>>

RECURSIVE ClaimedFrom(_, _, _)
ClaimedFrom(dir, refs, j) ==
    IF j > Len(refs) THEN <<>>
    ELSE ClaimedPaths(dir, refs[j]) \o ClaimedFrom(dir, refs, j + 1)

ClaimedMedia(entry) ==
    ClaimedFrom("photos", entry.photos, 1)
    \o ClaimedFrom("videos", entry.videos, 1)
    \o ClaimedFrom("audios", entry.audios, 1)

RefsOf(entry, dir) ==
    CASE dir = "photos" -> entry.photos
      [] dir = "videos" -> entry.videos
      [] dir = "audios" -> entry.audios

\* C7: each reference contributes the descriptor of the first existing
\* extension of its stem, or nothing; only files of that stem are looked
\* for.
C7_FirstExistingExtension ==
    /\ \A k \in 1..Len(entries_html) :
           LET items == entries_html[k].media_block.items
               entry == data.entries[k]
           IN  /\ [n \in 1..Len(items) |-> items[n].path] = ClaimedMedia(entry)
               /\ Len(items) <=
                      Len(entry.photos) + Len(entry.videos) + Len(entry.audios)
               /\ entries_html[k].media_block.row = (items # <<>>)
    /\ (pc = "failed" /\ data.has_entries) =>
           Len(entries_html) = Len(data.entries)
    /\ \A path \in probed :
           \E k \in 1..Len(entries_html) :
               \E n \in 1..Len(RefsOf(data.entries[k], path.dir)) :
                   Stem(RefsOf(data.entries[k], path.dir)[n]) = path.stem

C7_Witness ==
    /\ pc = "done"
    /\ Len(data.entries) = 1
    /\ data.entries[1].photos = <<MediaRef(StrOf("m"), StrOf("i"))>>
    /\ Path("photos", "i", ".jpg") \in fs
    /\ Path("photos", "m", ".jpg") \notin fs
    /\ Path("photos", "m", ".png") \in fs
    /\ Len(entries_html[1].media_block.items) = 1
    /\ entries_html[1].media_block.items[1].path = Path("photos", "m", ".png")
    /\ Path("photos", "i", ".jpg") \notin probed

====
